---- MODULE Spec2Model ----
(***************************************************************************)
(* RepoGPT: the crawler (repogpt/crawler.py) and the tree-sitter outline   *)
(* builder (repogpt/parsers/treesitter_parser.py).                         *)
(*                                                                         *)
(* Python strings are sequences of one-character strings, so that          *)
(* str.split, fnmatch, os.path.join, os.path.splitext and str.count are    *)
(* computed the way the library computes them.                             *)
(***************************************************************************)
EXTENDS Integers, Sequences, FiniteSets, TLC

VARIABLES
    \* crawl_and_split / filter_files
    root_dir,        \* the root_dir argument
    isdir,           \* the paths for which os.path.isdir is true
    walk,            \* what os.walk(root_dir) yields, one entry per file
    pc,              \* position of crawl_and_split
    wi,              \* index of the next os.walk entry of filter_files
    files_to_crawl,  \* filter_files' list of FileProperties
    qi,              \* index of the next queued file of crawl_and_split
    split_docs,      \* crawl_and_split's aggregate list
    log,             \* records written through logger
    results,         \* history: what process_and_split returned, per queued file
    \* process_file
    page_content,    \* file_doc.page_content, the text of the file
    file_extension,  \* the extension argument
    file_summary,    \* the outline the parser returned
    file_docs,       \* the Documents process_file returns
    \* get_closest_method_class_in_snippet
    snippet,         \* the call's arguments: outline, start and end line
    closest,         \* what the call returned
    \* TreeSitterParser
    languages,       \* TreeSitterParser.languages
    loaded,          \* TreeSitterParser.loaded
    init_runs,       \* history: how many times initialize_treesitter was entered
    languages_writes,\* history: how many times languages was assigned
    tpc,             \* position of each thread in get_file_summary
    calls,           \* get_file_summary calls each thread has made
    gfs_in,          \* the arguments of a get_file_summary call: extension and tree
    gfs_out          \* the FileSummary the call returned

crawl_vars == <<root_dir, isdir, walk, pc, wi, files_to_crawl, qi, split_docs, log, results>>

file_vars == <<page_content, file_extension, file_summary, file_docs>>

closest_vars == <<snippet, closest>>

registry_vars == <<languages, loaded, init_runs, languages_writes, tpc, calls>>

summary_vars == <<gfs_in, gfs_out>>

vars == <<crawl_vars, file_vars, closest_vars, registry_vars, summary_vars>>

other_than_crawl == <<file_vars, closest_vars, registry_vars, summary_vars>>

----------------------------------------------------------------------------
(* Bounds of the model *)

\* files that os.walk finds in one run
MaxFiles == 2
\* chunks the splitter returns for one file
MaxChunks == 2
\* characters of a file's text
MaxLen == 4
\* the greatest row of a span of an outline
MaxRow == 2
\* methods of an outline
MaxMethods == 2
\* classes of an outline
MaxClasses == 1
\* nodes of a syntax tree below its root
MaxNodes == 3
\* the greatest row a node of a syntax tree starts on
MaxNodeRow == 1
\* threads that call get_file_summary
MaxThreads == 2
\* get_file_summary calls of one thread
MaxCalls == 3

----------------------------------------------------------------------------
(* Strings *)

RECURSIVE SplitFrom(_, _, _, _)
\* str.split(sep) for a one-character sep: scan from index i, cur is the piece
\* being read, acc the pieces already closed
SplitFrom(s, i, cur, acc) ==
    IF i > Len(s) THEN Append(acc, cur)
    ELSE IF s[i] = "/" THEN SplitFrom(s, i + 1, <<>>, Append(acc, cur))
    ELSE SplitFrom(s, i + 1, Append(cur, s[i]), acc)

\* dir_path.split('/')
split(s) == SplitFrom(s, 1, <<>>, <<>>)

\* fnmatch.fnmatch(name, '.*'): the pattern is a dot followed by anything
fnmatch_dot_star(name) == Len(name) >= 1 /\ name[1] = "."

\* os.path.join(a, b) (posixpath)
join(a, b) ==
    IF Len(b) >= 1 /\ b[1] = "/" THEN b
    ELSE IF a = <<>> \/ a[Len(a)] = "/" THEN a \o b
    ELSE a \o <<"/">> \o b

\* s.rfind('.') as a 1-based index, 0 when there is none
rfind_dot(s) ==
    LET dots == {i \in 1..Len(s) : s[i] = "."}
    IN  IF dots = {} THEN 0 ELSE CHOOSE i \in dots : \A j \in dots : j <= i

\* os.path.splitext(file)[1] for a file name without separators
\* (genericpath._splitext): the last dot starts the extension unless only dots
\* precede it
splitext(p) ==
    LET dotIndex == rfind_dot(p)
    IN  IF dotIndex > 0 /\ \E k \in 1..(dotIndex - 1) : p[k] # "."
        THEN SubSeq(p, dotIndex, Len(p))
        ELSE <<>>

----------------------------------------------------------------------------
(* crawler.py *)

\* LANG_MAPPING: extension -> langchain Language
LANG_MAPPING ==
    (<<".", "p", "y">> :> "PYTHON") @@
    (<<".", "c", "p", "p">> :> "CPP") @@
    (<<".", "c", "c">> :> "CPP") @@
    (<<".", "c", "x", "x">> :> "CPP") @@
    (<<".", "h">> :> "CPP") @@
    (<<".", "h", "p", "p">> :> "CPP") @@
    (<<".", "j", "a", "v", "a">> :> "JAVA") @@
    (<<".", "g", "o">> :> "GO") @@
    (<<".", "j", "s">> :> "JS") @@
    (<<".", "t", "s">> :> "JS") @@
    (<<".", "p", "h", "p">> :> "PHP") @@
    (<<".", "p", "r", "o", "t", "o">> :> "PROTO") @@
    (<<".", "r", "s">> :> "RST") @@
    (<<".", "r", "b">> :> "RUBY") @@
    (<<".", "s", "c", "a", "l", "a">> :> "SCALA") @@
    (<<".", "s", "w", "i", "f", "t">> :> "SWIFT") @@
    (<<".", "m", "d">> :> "MARKDOWN") @@
    (<<".", "t", "e", "x">> :> "LATEX") @@
    (<<".", "h", "t", "m", "l">> :> "HTML")

\* FileProperties(dir_path, file_name, extension)
FileProperties(dir_path, file_name, extension) ==
    [dir_path |-> dir_path, file_name |-> file_name, extension |-> extension]

\* contains_hidden_dir(dir_path)
contains_hidden_dir(dir_path) ==
    LET directories == split(dir_path)
    IN  \E i \in 1..Len(directories) : fnmatch_dot_star(directories[i])

\* is_git_dir without the os.path.isdir test
is_git_dir_any(dir_path) == TRUE

\* is_git_dir(dir_path)
is_git_dir(dir_path) ==
    LET git_dir == join(dir_path, <<".", "g", "i", "t">>)
    IN  git_dir \in isdir

\* the parser process_file picks for an extension; "FileSummary" is the empty
\* outline FileSummary()
file_summary_parser(extension) ==
    IF extension = <<".", "p", "y">> THEN "PythonParser"
    ELSE IF extension = <<".", "c", "p", "p">> THEN "CppTreeSitterParser"
    ELSE IF extension = <<".", "j", "a", "v", "a">> THEN "JavaTreeSitterParser"
    ELSE IF extension = <<".", "j", "s">> THEN "JsTreeSitterParser"
    ELSE IF extension = <<".", "g", "o">> THEN "GoTreeSitterParser"
    ELSE "FileSummary"

\* the Documents process_file returns for a file the splitter cuts into n chunks;
\* each records the file it comes from, its place in the file and the parser
\* that built the outline its context sentence is taken from
chunk_documents(dir_path, file_name, extension, n) ==
    [k \in 1..n |-> [source |-> join(dir_path, file_name), k |-> k,
                     summary_by |-> file_summary_parser(extension)]]

\* process_file as crawl_and_split sees it: parse names what the parser and the
\* splitter do with the contents ("ok" or "error"), n the number of chunks.
\* LANG_MAPPING[extension] raises KeyError for an extension without an entry.
process_file_outcome(dir_path, file_name, extension, parse, n) ==
    IF parse = "error" \/ extension \notin DOMAIN LANG_MAPPING
    THEN [raised |-> TRUE, docs |-> <<>>]
    ELSE [raised |-> FALSE, docs |-> chunk_documents(dir_path, file_name, extension, n)]

log_record(level, path) == [level |-> level, path |-> path]

\* process_and_split without its try/except: the exception leaves the function
process_and_split_uncaught(file, load, parse, n) ==
    LET path == join(file.dir_path, file.file_name)
        r == process_file_outcome(file.dir_path, file.file_name, file.extension, parse, n)
    IN  IF load = "error" \/ r.raised
        THEN [propagates |-> TRUE, none |-> TRUE, docs |-> <<>>, logged |-> <<>>]
        ELSE [propagates |-> FALSE, none |-> FALSE, docs |-> r.docs, logged |-> <<>>]

\* process_and_split(file, chunk_size, chunk_overlap): load says what
\* TextLoader.load does ("ok" or "error"); the result is None (none) or the
\* chunks, with what was logged and whether an exception leaves the function
process_and_split(file, load, parse, n) ==
    LET path == join(file.dir_path, file.file_name)
        r == process_file_outcome(file.dir_path, file.file_name, file.extension, parse, n)
    IN  IF load = "error" \/ r.raised
        THEN [propagates |-> FALSE, none |-> TRUE, docs |-> <<>>,
              logged |-> <<log_record("error", path)>>]
        ELSE [propagates |-> FALSE, none |-> FALSE, docs |-> r.docs, logged |-> <<>>]

\* split_docs = docs in place of split_docs.extend(docs)
extend_replacing(list, docs) == docs

\* split_docs.extend(docs)
extend(list, docs) == list \o docs

----------------------------------------------------------------------------
(* The runs of crawl_and_split that are explored *)

\* root_dir arguments: "r", ".", "r/" and "/r"
RootDirs == {<<"r">>, <<".">>, <<"r", "/">>, <<"/", "r">>}

\* files of the tree, each with the directories os.walk descends through to
\* reach it: a/b/m.py, .git/objects/o.py, s.cfg, t.ts, a/g.go
WalkPool ==
    { [rel |-> << <<"a">>, <<"b">> >>, file |-> <<"m", ".", "p", "y">>],
      [rel |-> << <<".", "g", "i", "t">>, <<"o", "b", "j", "e", "c", "t", "s">> >>,
       file |-> <<"o", ".", "p", "y">>],
      [rel |-> <<>>, file |-> <<"s", ".", "c", "f", "g">>],
      [rel |-> <<>>, file |-> <<"t", ".", "t", "s">>],
      [rel |-> << <<"a">> >>, file |-> <<"g", ".", "g", "o">>] }

\* the sequences of at most n distinct elements of S
RECURSIVE DistinctSeqs(_, _)
DistinctSeqs(S, n) ==
    IF n = 0 THEN {<<>>}
    ELSE LET shorter == DistinctSeqs(S, n - 1)
         IN  shorter \cup
             {Append(q, x) : <<q, x>> \in
                 {qx \in shorter \X S :
                     /\ Len(qx[1]) = n - 1
                     /\ \A i \in 1..Len(qx[1]) : qx[1][i] # qx[2]}}

RECURSIVE walk_dir(_, _)
\* the dir_path os.walk yields for the directory reached from top through rel
walk_dir(top, rel) ==
    IF rel = <<>> THEN top
    ELSE join(walk_dir(top, SubSeq(rel, 1, Len(rel) - 1)), rel[Len(rel)])

crawl_Init ==
    /\ root_dir \in RootDirs
    /\ isdir \in SUBSET {join(root_dir, <<".", "g", "i", "t">>),
                         join(join(root_dir, <<"a">>), <<".", "g", "i", "t">>)}
    /\ walk \in DistinctSeqs(WalkPool, MaxFiles)
    /\ pc = "filter_files"
    /\ wi = 1
    /\ files_to_crawl = <<>>
    /\ qi = 1
    /\ split_docs = <<>>
    /\ log = <<>>
    /\ results = <<>>

\* filter_files, lines 122-125: the check of the root
filter_files_check ==
    /\ pc = "filter_files"
    /\ pc' = IF ~is_git_dir(root_dir) THEN "ValueError" ELSE "walk"
    /\ UNCHANGED <<root_dir, isdir, walk, wi, files_to_crawl, qi, split_docs, log, results>>
    /\ UNCHANGED other_than_crawl

\* filter_files, lines 126-133: one file of os.walk
filter_files_file ==
    /\ pc = "walk"
    /\ wi <= Len(walk)
    /\ LET dir_path == walk_dir(root_dir, walk[wi].rel)
           file == walk[wi].file
           extension == splitext(file)
       IN  IF extension \in DOMAIN LANG_MAPPING /\ ~contains_hidden_dir(dir_path)
           THEN /\ files_to_crawl' = Append(files_to_crawl, FileProperties(dir_path, file, extension))
                /\ log' = log
           ELSE /\ log' = Append(log, log_record("info", join(dir_path, file)))
                /\ files_to_crawl' = files_to_crawl
    /\ wi' = wi + 1
    /\ UNCHANGED <<root_dir, isdir, walk, pc, qi, split_docs, results>>
    /\ UNCHANGED other_than_crawl

\* filter_files, line 134, and crawl_and_split, lines 150-155
filter_files_return ==
    /\ pc = "walk"
    /\ wi > Len(walk)
    /\ pc' = "chunking"
    /\ UNCHANGED <<root_dir, isdir, walk, wi, files_to_crawl, qi, split_docs, log, results>>
    /\ UNCHANGED other_than_crawl

\* crawl_and_split, lines 156-160: one queued file
crawl_and_split_file ==
    /\ pc = "chunking"
    /\ qi <= Len(files_to_crawl)
    /\ \E load \in {"ok", "error"}, parse \in {"ok", "error"}, n \in 0..MaxChunks :
          /\ load = "error" => (parse = "ok" /\ n = 0)
          /\ parse = "error" => n = 0
          /\ LET docs == process_and_split(files_to_crawl[qi], load, parse, n)
             IN  IF docs.propagates
                 THEN /\ pc' = "Exception"
                      /\ UNCHANGED <<qi, split_docs, log, results>>
                 ELSE /\ split_docs' = IF ~docs.none /\ docs.docs # <<>>
                                       THEN extend(split_docs, docs.docs)
                                       ELSE split_docs
                      /\ log' = log \o docs.logged
                      /\ results' = Append(results, [load |-> load, parse |-> parse,
                                                     none |-> docs.none, docs |-> docs.docs])
                      /\ qi' = qi + 1
                      /\ pc' = pc
    /\ UNCHANGED <<root_dir, isdir, walk, wi, files_to_crawl>>
    /\ UNCHANGED other_than_crawl

\* crawl_and_split, line 162
crawl_and_split_return ==
    /\ pc = "chunking"
    /\ qi > Len(files_to_crawl)
    /\ pc' = "returned"
    /\ UNCHANGED <<root_dir, isdir, walk, wi, files_to_crawl, qi, split_docs, log, results>>
    /\ UNCHANGED other_than_crawl

crawl_Next ==
    \/ filter_files_check
    \/ filter_files_file
    \/ filter_files_return
    \/ crawl_and_split_file
    \/ crawl_and_split_return

----------------------------------------------------------------------------
(* get_closest_method_class_in_snippet (repogpt/parsers/treesitter.py) *)

\* SummaryPosition(name, start_line, end_line)
SummaryPosition(name, start_line, end_line) ==
    [name |-> name, start_line |-> start_line, end_line |-> end_line]

\* FileSummary(): the empty outline
FileSummary == [methods |-> <<>>, classes |-> <<>>]

span_size(sp) == sp.end_line - sp.start_line

\* the scan without the containment rule: the nearest preceding span only
RECURSIVE scan_preceding_only(_, _, _, _, _)
scan_preceding_only(spans, i, line, containing, preceding) ==
    IF i > Len(spans) THEN preceding
    ELSE LET sp == spans[i]
         IN  scan_preceding_only(spans, i + 1, line, containing,
                 IF sp.start_line <= line /\ (preceding = <<>> \/ sp.start_line >= preceding[1].start_line)
                 THEN <<sp>> ELSE preceding)

RECURSIVE scan_spans(_, _, _, _, _)
\* the linear scan over one list of spans: containing is the tightest span seen
\* so far that contains line, preceding the span seen so far with the greatest
\* start_line that is <= line; each is <<>> or <<span>>
scan_spans(spans, i, line, containing, preceding) ==
    IF i > Len(spans)
    THEN IF containing # <<>> THEN containing ELSE preceding
    ELSE LET sp == spans[i]
             inside == sp.start_line <= line /\ line <= sp.end_line
             before == sp.start_line <= line
         IN  scan_spans(spans, i + 1, line,
                 IF inside /\ (containing = <<>> \/ span_size(sp) < span_size(containing[1]))
                 THEN <<sp>> ELSE containing,
                 IF before /\ (preceding = <<>> \/ sp.start_line >= preceding[1].start_line)
                 THEN <<sp>> ELSE preceding)

\* get_closest_method_class_in_snippet(file_summary, starting_line, ending_line):
\* the method and the class the context sentence names (<<>> when none), and
\* whether a sentence is emitted at all
get_closest_method_class_in_snippet(summary, starting_line, ending_line) ==
    LET method == scan_spans(summary.methods, 1, starting_line, <<>>, <<>>)
        class == scan_spans(summary.classes, 1, starting_line, <<>>, <<>>)
    IN  [method |-> method, class |-> class,
         sentence |-> method # <<>> \/ class # <<>>]

----------------------------------------------------------------------------
(* process_file *)

RECURSIVE count_newlines(_)
\* s.count('\n')
count_newlines(s) ==
    IF s = <<>> THEN 0
    ELSE count_newlines(Tail(s)) + (IF Head(s) = "\n" THEN 1 ELSE 0)

\* s[:n] for 0 <= n
prefix(s, n) == SubSeq(s, 1, IF n > Len(s) THEN Len(s) ELSE n)

\* line 101 without the + 1
starting_line_zero_based(text, start_index) == count_newlines(prefix(text, start_index))

\* line 101: file_doc.page_content[:doc.metadata['start_index']].count('\n') + 1
starting_line_of(text, start_index) == count_newlines(prefix(text, start_index)) + 1

\* line 102: starting_line + doc.page_content.count('\n')
ending_line_of(starting_line, chunk_text) == starting_line + count_newlines(chunk_text)

\* lines 100-115: what the loop makes of one Document of the splitter
annotate(text, summary, dir_path, file_name, doc) ==
    LET starting_line == starting_line_of(text, doc.start_index)
        ending_line == ending_line_of(starting_line, doc.page_content)
    IN  [start_index |-> doc.start_index,
         starting_line |-> starting_line,
         ending_line |-> ending_line,
         location |-> join(dir_path, file_name),
         method_class_summary |->
             get_closest_method_class_in_snippet(summary, starting_line, ending_line),
         snippet |-> doc.page_content]

\* process_file(file_contents, dir_path, file_name, extension, chunk_size,
\* chunk_overlap) for the outline summary of the parser and the Documents
\* chunks of the splitter
process_file(text, summary, chunks, dir_path, file_name) ==
    [i \in 1..Len(chunks) |-> annotate(text, summary, dir_path, file_name, chunks[i])]

\* the texts of at most n characters
Texts(n) == UNION {[1..k -> {"x", "\n"}] : k \in 0..n}

\* a Document of the splitter: a slice of the text with its start_index
RawChunk(text, o, len) == [start_index |-> o, page_content |-> SubSeq(text, o + 1, o + len)]

\* the slices of text, by (offset, length)
Slices(text) == {ol \in (0..Len(text)) \X (1..Len(text)) : ol[1] + ol[2] <= Len(text)}

RECURSIVE Splits(_, _)
\* the lists of at most n Documents the splitter may return for text, in the
\* order of their offsets
Splits(text, n) ==
    IF n = 0 THEN {<<>>}
    ELSE LET shorter == Splits(text, n - 1)
         IN  shorter \cup
             {Append(qx[1], RawChunk(text, qx[2][1], qx[2][2])) :
                 qx \in {qy \in shorter \X Slices(text) :
                           /\ Len(qy[1]) = n - 1
                           /\ qy[1] # <<>> => qy[1][Len(qy[1])].start_index < qy[2][1]}}

\* the outline of the hello_world scenario: one method on rows 0 to 1
HelloWorldSummary ==
    [methods |-> <<SummaryPosition("hello_world", 0, 1)>>, classes |-> <<>>]

\* the outlines a parser may return for the file
ParserSummaries(ext) ==
    IF file_summary_parser(ext) = "FileSummary" THEN {FileSummary}
    ELSE {FileSummary, HelloWorldSummary}

file_Idle ==
    /\ page_content = <<>>
    /\ file_extension = <<>>
    /\ file_summary = FileSummary
    /\ file_docs = <<>>

file_Init ==
    /\ page_content \in Texts(MaxLen)
    /\ file_extension \in {<<".", "p", "y">>, <<".", "m", "d">>}
    /\ file_summary = FileSummary
    /\ file_docs = <<>>

\* one call of process_file on the file
process_file_call ==
    /\ file_docs = <<>>
    /\ \E summary \in ParserSummaries(file_extension), chunks \in Splits(page_content, MaxChunks) :
          /\ chunks # <<>>
          /\ file_summary' = summary
          /\ file_docs' = process_file(page_content, summary, chunks, <<"r">>, <<"f">> \o file_extension)
    /\ UNCHANGED <<page_content, file_extension>>
    /\ UNCHANGED <<crawl_vars, closest_vars, registry_vars, summary_vars>>

----------------------------------------------------------------------------
(* The calls of get_closest_method_class_in_snippet that are explored *)

\* line ranges of spans
Ranges == {r \in (0..MaxRow) \X (0..MaxRow) : r[1] <= r[2]}

RECURSIVE SortedRanges(_)
\* the lists of at most n ranges in non-decreasing order of their first row
SortedRanges(n) ==
    IF n = 0 THEN {<<>>}
    ELSE LET shorter == SortedRanges(n - 1)
         IN  shorter \cup
             {Append(qr[1], qr[2]) :
                 qr \in {qs \in shorter \X Ranges :
                           /\ Len(qs[1]) = n - 1
                           /\ qs[1] # <<>> => qs[1][Len(qs[1])][1] <= qs[2][1]}}

\* the spans of a list of ranges, named by kind and position
Spans(kind, ranges) ==
    [i \in 1..Len(ranges) |-> SummaryPosition(<<kind, i>>, ranges[i][1], ranges[i][2])]

closest_Idle ==
    /\ snippet = <<>>
    /\ closest = <<>>

closest_Init ==
    /\ \E ms \in SortedRanges(MaxMethods), cs \in SortedRanges(MaxClasses),
          line \in 1..(MaxRow + 2) :
          snippet = <<[summary |-> [methods |-> Spans("method", ms),
                                    classes |-> Spans("class", cs)],
                       starting_line |-> line,
                       ending_line |-> line]>>
    /\ closest = <<>>

\* one call of get_closest_method_class_in_snippet
closest_call ==
    /\ closest = <<>>
    /\ closest' = <<get_closest_method_class_in_snippet(
                        snippet[1].summary, snippet[1].starting_line, snippet[1].ending_line)>>
    /\ UNCHANGED snippet
    /\ UNCHANGED <<crawl_vars, file_vars, registry_vars, summary_vars>>

----------------------------------------------------------------------------
(* treesitter_parser.py *)

\* LANGUAGE_NAMES of initialize_treesitter
LANGUAGE_NAMES == {"python", "java", "cpp", "go", "rust", "ruby", "php"}

\* line 22: the table initialize_treesitter assigns to languages
built_languages == [language \in LANGUAGE_NAMES |-> <<"/tmp/", language, ".so">>]

\* extension_to_language of get_file_summary
extension_to_language ==
    (<<".", "p", "y">> :> "python") @@
    (<<".", "r", "s">> :> "rust") @@
    (<<".", "g", "o">> :> "go") @@
    (<<".", "j", "a", "v", "a">> :> "java") @@
    (<<".", "c", "p", "p">> :> "cpp") @@
    (<<".", "c", "c">> :> "cpp") @@
    (<<".", "c", "x", "x">> :> "cpp") @@
    (<<".", "c">> :> "cpp") @@
    (<<".", "h">> :> "cpp") @@
    (<<".", "h", "p", "p">> :> "cpp") @@
    (<<".", "r", "b">> :> "ruby") @@
    (<<".", "p", "h", "p">> :> "php")

(* A syntax tree is the sequence of the nodes below root_node, each with the    *)
(* index of its parent (0: root_node), its type and the row it starts on; the   *)
(* children of a node are the nodes naming it as parent, in index order. The    *)
(* tokens of a node (children[1], the identifier the name is sliced from) are   *)
(* not nodes of the model: the name of node i is <<"name", i>>.                 *)

\* node.children, for node 0 (root_node) or a node of the tree
children(tree, node) == {i \in 1..Len(tree) : tree[i].parent = node}

RECURSIVE end_row(_, _)
\* node.end_point[0]: a node ends where the last of its descendants ends
end_row(tree, node) ==
    LET rows == {tree[node].row} \cup {end_row(tree, c) : c \in children(tree, node)}
    IN  CHOOSE r \in rows : \A q \in rows : q <= r

RECURSIVE traverse_children(_, _, _, _)
RECURSIVE traverse(_, _, _)
\* traverse(node, current_line): summary is file_summary as the nodes visited so
\* far left it
traverse(tree, node, summary) ==
    LET position == SummaryPosition(<<"name", node>>, tree[node].row, end_row(tree, node))
        with_method ==
            IF node # 0 /\ tree[node].type = "function_definition"
            THEN [summary EXCEPT !.methods = Append(@, position)]
            ELSE summary
        with_class ==
            IF node # 0 /\ tree[node].type = "class_specifier"
            THEN [with_method EXCEPT !.classes = Append(@, position)]
            ELSE with_method
    IN  traverse_children(tree, node, 1, with_class)

\* lines 67-68: for child in node.children, from index i on
traverse_children(tree, node, i, summary) ==
    IF i > Len(tree) THEN summary
    ELSE IF tree[i].parent = node
         THEN traverse_children(tree, node, i + 1, traverse(tree, i, summary))
         ELSE traverse_children(tree, node, i + 1, summary)

RECURSIVE insert_by_start_line(_, _)
\* x put into the sorted list after every element whose start_line is not greater
insert_by_start_line(sorted_list, x) ==
    IF sorted_list = <<>> THEN <<x>>
    ELSE IF sorted_list[Len(sorted_list)].start_line <= x.start_line
         THEN Append(sorted_list, x)
         ELSE Append(insert_by_start_line(SubSeq(sorted_list, 1, Len(sorted_list) - 1), x),
                     sorted_list[Len(sorted_list)])

\* the lists as the traversal left them, lines 75-76 dropped
unsorted(positions) == positions

RECURSIVE sorted(_)
\* sorted(positions, key=lambda x: x.start_line): stable
sorted(positions) ==
    IF positions = <<>> THEN <<>>
    ELSE insert_by_start_line(sorted(SubSeq(positions, 1, Len(positions) - 1)),
                              positions[Len(positions)])

\* get_file_summary, lines 47-78, for the extension of file_name and the tree
\* parser.parse returns
file_summary_of(ext, tree) ==
    IF ext \in DOMAIN extension_to_language
    THEN LET traversed == traverse(tree, 0, FileSummary)
         IN  [methods |-> sorted(traversed.methods), classes |-> sorted(traversed.classes)]
    ELSE FileSummary

----------------------------------------------------------------------------
(* The calls of get_file_summary that are explored *)

NodeTypes == {"function_definition", "class_specifier", "block"}

RECURSIVE Trees(_)
\* the syntax trees of at most n nodes below the root
Trees(n) ==
    IF n = 0 THEN {<<>>}
    ELSE LET smaller == Trees(n - 1)
         IN  smaller \cup
             {Append(t, [parent |-> p, type |-> ty, row |-> r]) :
                 t \in {u \in smaller : Len(u) = n - 1},
                 p \in 0..(n - 1), ty \in NodeTypes, r \in 0..MaxNodeRow}

Threads == 1..MaxThreads

registry_Idle ==
    /\ languages = <<>>
    /\ loaded = FALSE
    /\ init_runs = 0
    /\ languages_writes = 0
    /\ tpc = [t \in Threads |-> "idle"]
    /\ calls = [t \in Threads |-> 0]

summary_Idle ==
    /\ gfs_in = <<>>
    /\ gfs_out = <<>>

\* a call about to be made, in a process that has or has not built the
\* languages yet
summary_Init ==
    /\ \/ /\ loaded = FALSE
          /\ languages = <<>>
          /\ init_runs = 0
          /\ languages_writes = 0
       \/ /\ loaded = TRUE
          /\ languages = built_languages
          /\ init_runs = 1
          /\ languages_writes = 1
    /\ tpc = [t \in Threads |-> "idle"]
    /\ calls = [t \in Threads |-> 0]
    /\ \/ \E tree \in Trees(MaxNodes) :
             gfs_in = <<[extension |-> <<".", "c", "c">>, tree |-> tree]>>
       \/ gfs_in = <<[extension |-> <<".", "j", "s">>, tree |-> <<>>]>>
    /\ gfs_out = <<>>

\* get_file_summary(code, file_name), run by one caller from start to end
get_file_summary_call ==
    /\ gfs_out = <<>>
    /\ IF ~loaded
       THEN /\ init_runs' = init_runs + 1
            /\ languages' = built_languages
            /\ languages_writes' = languages_writes + 1
            /\ loaded' = TRUE
       ELSE UNCHANGED <<init_runs, languages, languages_writes, loaded>>
    /\ gfs_out' = <<file_summary_of(gfs_in[1].extension, gfs_in[1].tree)>>
    /\ UNCHANGED <<gfs_in, tpc, calls>>
    /\ UNCHANGED <<crawl_vars, file_vars, closest_vars>>

(* get_file_summary run by several threads: each statement that reads or writes *)
(* the class attributes is a step of its own                                    *)

\* line 29: if not TreeSitterParser.loaded
gfs_check_loaded(t) ==
    /\ tpc[t] = "idle"
    /\ calls[t] < MaxCalls
    /\ calls' = [calls EXCEPT ![t] = @ + 1]
    /\ tpc' = [tpc EXCEPT ![t] = IF loaded THEN "summary" ELSE "initialize"]
    /\ UNCHANGED <<languages, loaded, init_runs, languages_writes>>
    /\ UNCHANGED <<crawl_vars, file_vars, closest_vars, summary_vars>>

\* lines 30 and 14-21: initialize_treesitter is entered, clones and builds
initialize_treesitter_build(t) ==
    /\ tpc[t] = "initialize"
    /\ init_runs' = init_runs + 1
    /\ tpc' = [tpc EXCEPT ![t] = "assign"]
    /\ UNCHANGED <<languages, loaded, languages_writes, calls>>
    /\ UNCHANGED <<crawl_vars, file_vars, closest_vars, summary_vars>>

\* line 22: TreeSitterParser.languages = {...}
initialize_treesitter_assign(t) ==
    /\ tpc[t] = "assign"
    /\ languages' = built_languages
    /\ languages_writes' = languages_writes + 1
    /\ tpc' = [tpc EXCEPT ![t] = "set_loaded"]
    /\ UNCHANGED <<loaded, init_runs, calls>>
    /\ UNCHANGED <<crawl_vars, file_vars, closest_vars, summary_vars>>

\* line 23: TreeSitterParser.loaded = True
initialize_treesitter_loaded(t) ==
    /\ tpc[t] = "set_loaded"
    /\ loaded' = TRUE
    /\ tpc' = [tpc EXCEPT ![t] = "summary"]
    /\ UNCHANGED <<languages, init_runs, languages_writes, calls>>
    /\ UNCHANGED <<crawl_vars, file_vars, closest_vars, summary_vars>>

\* lines 32-78: the outline is built and returned; line 51 reads languages
gfs_summary(t) ==
    /\ tpc[t] = "summary"
    /\ \E ext \in {<<".", "c", "c">>, <<".", "j", "s">>} :
          tpc' = [tpc EXCEPT ![t] =
                     IF /\ ext \in DOMAIN extension_to_language
                        /\ extension_to_language[ext] \notin DOMAIN languages
                     THEN "KeyError" ELSE "idle"]
    /\ UNCHANGED <<languages, loaded, init_runs, languages_writes, calls>>
    /\ UNCHANGED <<crawl_vars, file_vars, closest_vars, summary_vars>>

registry_Next ==
    \E t \in Threads :
        \/ gfs_check_loaded(t)
        \/ initialize_treesitter_build(t)
        \/ initialize_treesitter_assign(t)
        \/ initialize_treesitter_loaded(t)
        \/ gfs_summary(t)

----------------------------------------------------------------------------
(* Specifications *)

crawl_Idle ==
    /\ root_dir = <<>>
    /\ isdir = {}
    /\ walk = <<>>
    /\ pc = "idle"
    /\ wi = 1
    /\ files_to_crawl = <<>>
    /\ qi = 1
    /\ split_docs = <<>>
    /\ log = <<>>
    /\ results = <<>>

\* crawl_and_split on a tree
Init == crawl_Init /\ file_Idle /\ closest_Idle /\ registry_Idle /\ summary_Idle

Next == crawl_Next

Spec == Init /\ [][Next]_vars

\* process_file on one file
InitFile == file_Init /\ crawl_Idle /\ closest_Idle /\ registry_Idle /\ summary_Idle

NextFile == process_file_call

SpecFile == InitFile /\ [][NextFile]_vars

\* get_closest_method_class_in_snippet on one outline and line
InitClosest == closest_Init /\ crawl_Idle /\ file_Idle /\ registry_Idle /\ summary_Idle

NextClosest == closest_call

SpecClosest == InitClosest /\ [][NextClosest]_vars

\* get_file_summary on one file
InitSummary == summary_Init /\ crawl_Idle /\ file_Idle /\ closest_Idle

NextSummary == get_file_summary_call

SpecSummary == InitSummary /\ [][NextSummary]_vars

\* get_file_summary called by several threads
InitRegistry == registry_Idle /\ summary_Idle /\ crawl_Idle /\ file_Idle /\ closest_Idle

NextRegistry == registry_Next

SpecRegistry == InitRegistry /\ [][NextRegistry]_vars

----------------------------------------------------------------------------
(* Properties of crawl_and_split *)

Range(f) == {f[i] : i \in DOMAIN f}

\* the path of the i-th queued file
queued_path(i) == join(files_to_crawl[i].dir_path, files_to_crawl[i].file_name)

\* the path of an os.walk entry
walk_path(e) == join(walk_dir(root_dir, e.rel), e.file)

\* processing the i-th queued file raised (in the loader, the parser or the splitter)
Failed(i) == results[i].load = "error" \/ results[i].parse = "error"

\* C1: a failure while processing one queued file never leaves crawl_and_split:
\* the file is logged and skipped, it contributes no chunk, the loop goes on and
\* a run that returns has processed every queued file.
C1_FailureIsolated ==
    /\ pc # "Exception"
    /\ Len(results) = qi - 1
    /\ pc = "chunking" => ENABLED crawl_Next
    /\ pc = "returned" => Len(results) = Len(files_to_crawl)
    /\ \A i \in 1..Len(results) :
          Failed(i) =>
             /\ results[i].none
             /\ \A d \in Range(split_docs) : d.source # queued_path(i)
             /\ log_record("error", queued_path(i)) \in Range(log)

\* a returned run in which a file failed and a later file gave chunks
C1_Witness ==
    /\ pc = "returned"
    /\ \E i, j \in 1..Len(results) :
          /\ i < j
          /\ Failed(i)
          /\ ~Failed(j)
          /\ \E d \in Range(split_docs) : d.source = queued_path(j)

\* there is no .git directory directly under root_dir
NoGitDirUnderRoot == join(root_dir, <<".", "g", "i", "t">>) \notin isdir

\* C2: when root_dir holds no .git directory the run ends in filter_files'
\* ValueError before anything is walked, queued, logged or processed.
C2_FailsFast ==
    NoGitDirUnderRoot =>
        /\ pc \in {"filter_files", "ValueError"}
        /\ wi = 1
        /\ files_to_crawl = <<>>
        /\ results = <<>>
        /\ split_docs = <<>>
        /\ log = <<>>

\* the ValueError has been raised for a tree that holds files, and a .git
\* directory below the root does not count
C2_Witness ==
    /\ NoGitDirUnderRoot
    /\ pc = "ValueError"
    /\ walk # <<>>
    /\ isdir # {}

\* a directory name that is hidden: it starts with a dot and is neither "."
\* (the directory itself) nor ".." (its parent)
HiddenDirName(name) ==
    /\ Len(name) >= 2
    /\ name[1] = "."
    /\ name # <<".", ".">>

\* the os.walk entry was queued by filter_files
Queued(e) ==
    \E i \in 1..Len(files_to_crawl) :
        /\ files_to_crawl[i].dir_path = walk_dir(root_dir, e.rel)
        /\ files_to_crawl[i].file_name = e.file

\* C3: once filter_files has returned, a file is queued if and only if its
\* extension is supported and no component of its path is a hidden directory.
C3_QueuedIffSupportedAndNotHidden ==
    pc \in {"chunking", "returned"} =>
        \A e \in Range(walk) :
            Queued(e) <=>
                /\ splitext(e.file) \in DOMAIN LANG_MAPPING
                /\ LET components == split(walk_dir(root_dir, e.rel))
                   IN  \A k \in 1..Len(components) : ~HiddenDirName(components[k])

\* the outline builder of each language family, by extension
FamilyParser ==
    (<<".", "p", "y">> :> "PythonParser") @@
    (<<".", "g", "o">> :> "GoTreeSitterParser") @@
    (<<".", "j", "a", "v", "a">> :> "JavaTreeSitterParser") @@
    (<<".", "j", "s">> :> "JsTreeSitterParser") @@
    (<<".", "t", "s">> :> "JsTreeSitterParser") @@
    (<<".", "c", "p", "p">> :> "CppTreeSitterParser") @@
    (<<".", "c", "c">> :> "CppTreeSitterParser") @@
    (<<".", "c", "x", "x">> :> "CppTreeSitterParser") @@
    (<<".", "h">> :> "CppTreeSitterParser") @@
    (<<".", "h", "p", "p">> :> "CppTreeSitterParser") @@
    (<<".", "c">> :> "CppTreeSitterParser")

\* C7: the outline of every chunk of a queued file comes from the builder of the
\* family of the file's extension, and from the empty outline only when the
\* extension belongs to no family.
C7_ParserByFamily ==
    \A i \in 1..Len(results) :
        \A d \in Range(results[i].docs) :
            LET extension == files_to_crawl[i].extension
            IN  d.summary_by = IF extension \in DOMAIN FamilyParser
                               THEN FamilyParser[extension]
                               ELSE "FileSummary"

\* C8: in a run that has returned, every file of the walk without a chunk in
\* the aggregate has a log record naming it.
C8_NoSilentDrop ==
    pc = "returned" =>
        \A e \in Range(walk) :
            (\A d \in Range(split_docs) : d.source # walk_path(e))
                => \E l \in Range(log) : l.path = walk_path(e)

RECURSIVE Concatenation(_)
\* the chunk lists of the processed files, one after the other
Concatenation(rs) ==
    IF rs = <<>> THEN <<>>
    ELSE Concatenation(SubSeq(rs, 1, Len(rs) - 1)) \o rs[Len(rs)].docs

\* C9: the aggregate is the concatenation, in queue order, of the chunk lists
\* the processed files returned: each file's chunks are contiguous and in the
\* splitter's order, each chunk is there once.
C9_AggregateIsConcatenation ==
    /\ split_docs = Concatenation(results)
    /\ \A a, b \in 1..Len(split_docs) :
          (a < b /\ split_docs[a].source = split_docs[b].source) =>
              /\ split_docs[a].k < split_docs[b].k
              /\ \A c \in a..b : split_docs[c].source = split_docs[a].source

\* a returned run with the chunks of two files, one of them with several chunks
C9_Witness ==
    /\ pc = "returned"
    /\ Len(results) >= 2
    /\ results[1].docs # <<>>
    /\ Len(results[2].docs) >= 2

----------------------------------------------------------------------------
(* Properties of process_file *)

\* the number of newline characters among s[a..b]
NewlinesIn(s, a, b) == Cardinality({i \in a..b : s[i] = "\n"})

\* C4: every chunk of process_file records as starting_line the number of
\* newlines before its start offset plus one, and as ending_line its
\* starting_line plus the number of newlines of its own text; so ending_line is
\* never below starting_line and a chunk at offset 0 starts on line 1.
C4_LineNumbers ==
    \A d \in Range(file_docs) :
        /\ d.starting_line = NewlinesIn(page_content, 1, d.start_index) + 1
        /\ d.ending_line = d.starting_line + NewlinesIn(d.snippet, 1, Len(d.snippet))
        /\ d.ending_line >= d.starting_line
        /\ d.start_index = 0 => d.starting_line = 1

\* a chunk that starts after the first line and spans several lines, after a
\* chunk at offset 0
C4_Witness ==
    /\ Len(file_docs) >= 2
    /\ file_docs[1].start_index = 0
    /\ \E d \in Range(file_docs) :
          /\ d.start_index > 0
          /\ d.starting_line > 1
          /\ d.ending_line > d.starting_line

----------------------------------------------------------------------------
(* Properties of get_closest_method_class_in_snippet *)

\* the spans of the list that contain the line
Containing(spans, line) ==
    {i \in 1..Len(spans) : spans[i].start_line <= line /\ line <= spans[i].end_line}

\* the spans of the list that start on or before the line
Preceding(spans, line) == {i \in 1..Len(spans) : spans[i].start_line <= line}

\* r is what the resolver is to surface for the list: a tightest containing
\* span, else a preceding span with the greatest start_line, else nothing
Surfaces(spans, line, r) ==
    IF Containing(spans, line) # {}
    THEN \E i \in Containing(spans, line) :
            /\ r = <<spans[i]>>
            /\ \A j \in Containing(spans, line) : span_size(spans[i]) <= span_size(spans[j])
    ELSE IF Preceding(spans, line) # {}
    THEN \E i \in Preceding(spans, line) :
            /\ r = <<spans[i]>>
            /\ \A j \in Preceding(spans, line) : spans[j].start_line <= spans[i].start_line
    ELSE r = <<>>

\* C5: for methods and for classes the resolver surfaces the tightest span
\* containing the chunk's starting line, else the nearest preceding span, else
\* nothing; a sentence is emitted exactly when something is surfaced, and a
\* line inside exactly one span of the outline surfaces that span.
C5_ClosestSymbol ==
    closest # <<>> =>
        LET summary == snippet[1].summary
            line == snippet[1].starting_line
            all == summary.methods \o summary.classes
        IN  /\ Surfaces(summary.methods, line, closest[1].method)
            /\ Surfaces(summary.classes, line, closest[1].class)
            /\ closest[1].sentence <=> (closest[1].method # <<>> \/ closest[1].class # <<>>)
            /\ \A i \in 1..Len(all) :
                  Containing(all, line) = {i} =>
                      (closest[1].method = <<all[i]>> \/ closest[1].class = <<all[i]>>)

\* a call with two methods around the line, one tighter than the other, and a
\* class that ended before the line
C5_Witness ==
    /\ closest # <<>>
    /\ LET summary == snippet[1].summary
           line == snippet[1].starting_line
       IN  /\ \E i, j \in Containing(summary.methods, line) :
                 span_size(summary.methods[i]) < span_size(summary.methods[j])
           /\ Containing(summary.classes, line) = {}
           /\ Preceding(summary.classes, line) # {}
           /\ closest[1].class # <<>>

----------------------------------------------------------------------------
(* Properties of get_file_summary *)

\* the list is non-decreasing by start_line
NonDecreasing(positions) ==
    \A i, j \in 1..Len(positions) :
        i < j => positions[i].start_line <= positions[j].start_line

\* C6: the methods and the classes of every FileSummary get_file_summary
\* returns are non-decreasing by start_line, whatever the order in which the
\* traversal met them.
C6_OutlineSorted ==
    gfs_out # <<>> =>
        /\ NonDecreasing(gfs_out[1].methods)
        /\ NonDecreasing(gfs_out[1].classes)

\* an outline returned for a tree whose traversal met two methods out of order
C6_Witness ==
    /\ gfs_out # <<>>
    /\ Len(gfs_out[1].methods) >= 2
    /\ Len(gfs_out[1].classes) >= 1
    /\ ~NonDecreasing(traverse(gfs_in[1].tree, 0, FileSummary).methods)

\* C10: initialize_treesitter is entered at most once, languages is assigned at
\* most once, and while loaded is true languages holds every language.
C10_InitializedOnce ==
    /\ init_runs <= 1
    /\ languages_writes <= 1
    /\ loaded => DOMAIN languages = LANGUAGE_NAMES

====
